---------------------------- MODULE Spec2Model ----------------------------
(***************************************************************************)
(* Model of the job scorer (src/main.py) and of the two process_input      *)
(* pipelines (src/main.py, src/tempCodeRunnerFile.py).                     *)
(*                                                                         *)
(* Text is modelled as a sequence of one-character strings, so that        *)
(* substring tests, regular-expression word boundaries, lowercasing,       *)
(* joining and concatenation are computed the way Python computes them.    *)
(* Python values are tagged records: [t |-> "str", v |-> <<chars>>],       *)
(* [t |-> "list", v |-> <<values>>], [t |-> "dict", v |-> [key |-> value]],*)
(* [t |-> "int", v |-> n], [t |-> "none"].                                 *)
(***************************************************************************)
EXTENDS Integers, Sequences, FiniteSets, TLC

VARIABLES
    job,        \* score_job: the argument of the call
    scored,     \* score_job: what the call produced (pending / ok / raise)
    log,        \* scored_jobs.json: the sequence of chunks written so far
    status,     \* process_input: first component of the returned pair
    result,     \* process_input: second component of the returned pair
    job_info,   \* process_input: the local job_info of the latest run
    calls       \* process_input: collaborators invoked by the latest run

vars == <<job, scored, log, status, result, job_info, calls>>

---------------------------------------------------------------------------
(* Bounds of the model *)

\* at most this many description fragments are concatenated into one input
MaxFrags == 2

\* at most this many successful pipeline runs are appended to the log
MaxRuns == 2

---------------------------------------------------------------------------
(* Python values *)

PyNone == [t |-> "none"]
PyStr(s) == [t |-> "str", v |-> s]
PyInt(n) == [t |-> "int", v |-> n]
PyList(xs) == [t |-> "list", v |-> xs]
PyDict(f) == [t |-> "dict", v |-> f]

\* stands for a key that the mapping does not hold
Absent == [t |-> "absent"]

\* the mapping with the keys of fs whose option is not Absent
MkDict(fs) == PyDict([k \in {x \in DOMAIN fs : fs[x].t # "absent"} |-> fs[k]])

\* bool(x)
Truthy(x) ==
    CASE x.t = "none" -> FALSE
      [] x.t = "str"  -> Len(x.v) > 0
      [] x.t = "list" -> Len(x.v) > 0
      [] x.t = "int"  -> x.v # 0
      [] x.t = "dict" -> DOMAIN x.v # {}
      [] OTHER        -> FALSE

\* job.get(k, d)
Get(d0, k, d) == IF k \in DOMAIN d0.v THEN d0.v[k] ELSE d

---------------------------------------------------------------------------
(* Text *)

UpperLetters == <<"A","B","C","D","E","F","G","H","I","J","K","L","M","N","O","P","Q","R","S","T","U","V","W","X","Y","Z">>
LowerLetters == <<"a","b","c","d","e","f","g","h","i","j","k","l","m","n","o","p","q","r","s","t","u","v","w","x","y","z">>
Digits == <<"0","1","2","3","4","5","6","7","8","9">>

LowerMap ==
    [c \in {UpperLetters[i] : i \in 1..Len(UpperLetters)} |->
        LowerLetters[CHOOSE i \in 1..Len(UpperLetters) : UpperLetters[i] = c]]

\* str.lower()
Lower(s) == [i \in 1..Len(s) |-> IF s[i] \in DOMAIN LowerMap THEN LowerMap[s[i]] ELSE s[i]]

\* the characters the regular expression class \w matches
WordChars ==
    {UpperLetters[i] : i \in 1..Len(UpperLetters)}
    \cup {LowerLetters[i] : i \in 1..Len(LowerLetters)}
    \cup {Digits[i] : i \in 1..Len(Digits)} \cup {"_"}

WordAt(s, p) == p >= 1 /\ p <= Len(s) /\ s[p] \in WordChars

\* \b between s[p] and s[p+1] (p = 0: the start, p = Len(s): the end)
Boundary(s, p) == WordAt(s, p) # WordAt(s, p + 1)

\* k occurs in s starting at position i
MatchAt(s, k, i) ==
    /\ i + Len(k) - 1 <= Len(s)
    /\ \A j \in 1..Len(k) : s[i + j - 1] = k[j]

\* k in s
Contains(s, k) == \E i \in 1..(Len(s) - Len(k) + 1) : MatchAt(s, k, i)

\* any(k in s for k in ks)
ContainsAny(s, ks) == \E n \in 1..Len(ks) : Contains(s, ks[n])

\* re.search of the alternatives ks between two word boundaries in s
SearchWords(ks, s) ==
    \E i \in 1..Len(s) :
        /\ Boundary(s, i - 1)
        /\ \E n \in 1..Len(ks) :
              MatchAt(s, ks[n], i) /\ Boundary(s, i + Len(ks[n]) - 1)

RECURSIVE JoinFrom(_, _, _)
JoinFrom(sep, xs, n) ==
    IF n > Len(xs) THEN <<>>
    ELSE IF n = Len(xs) THEN xs[n]
    ELSE xs[n] \o sep \o JoinFrom(sep, xs, n + 1)

\* sep.join(xs), xs a sequence of texts
Join(sep, xs) == JoinFrom(sep, xs, 1)

RECURSIVE DecimalDigits(_)
DecimalDigits(n) ==
    IF n < 10 THEN <<Digits[n + 1]>>
    ELSE DecimalDigits(n \div 10) \o <<Digits[(n % 10) + 1]>>

\* str(x) for the values the model passes in experience_required
Str(x) ==
    CASE x.t = "str"  -> x.v
      [] x.t = "none" -> <<"N","o","n","e">>
      [] x.t = "int"  -> IF x.v < 0 THEN <<"-">> \o DecimalDigits(-x.v)
                         ELSE DecimalDigits(x.v)
      [] OTHER        -> <<"?">>

---------------------------------------------------------------------------
(* Keyword tables of score_job *)

kw_intern == <<"i","n","t","e","r","n">>
kw_unpaid == <<"u","n","p","a","i","d">>
kw_negotiable == <<"n","e","g","o","t","i","a","b","l","e">>
kw_inr == <<"i","n","r">>
kw_lpa == <<"l","p","a">>
kw_dollar == <<"$">>
kw_salary == <<"s","a","l","a","r","y">>
kw_stipend == <<"s","t","i","p","e","n","d">>
kw_mentorship == <<"m","e","n","t","o","r","s","h","i","p">>
kw_training == <<"t","r","a","i","n","i","n","g">>
kw_learning == <<"l","e","a","r","n","i","n","g">>
kw_hands_on == <<"h","a","n","d","s","-","o","n">>
kw_startup == <<"s","t","a","r","t","u","p">>
kw_early_stage == <<"e","a","r","l","y","-","s","t","a","g","e">>
kw_fresher == <<"f","r","e","s","h","e","r">>
kw_0_1_year == <<"0","-","1"," ","y","e","a","r">>
kw_entry_level == <<"e","n","t","r","y"," ","l","e","v","e","l">>
kw_1_2_years == <<"1","-","2"," ","y","e","a","r","s">>
kw_google == <<"g","o","o","g","l","e">>
kw_microsoft == <<"m","i","c","r","o","s","o","f","t">>
kw_amazon == <<"a","m","a","z","o","n">>
kw_techcorp == <<"t","e","c","h","c","o","r","p">>
kw_flipkart == <<"f","l","i","p","k","a","r","t">>
kw_remote == <<"r","e","m","o","t","e">>
kw_hybrid == <<"h","y","b","r","i","d">>
kw_work_from_home == <<"w","o","r","k"," ","f","r","o","m"," ","h","o","m","e">>
kw_full_time == <<"f","u","l","l","-","t","i","m","e">>
kw_permanent == <<"p","e","r","m","a","n","e","n","t">>
kw_contract == <<"c","o","n","t","r","a","c","t">>
kw_freelance == <<"f","r","e","e","l","a","n","c","e">>

UnpaidWords == <<kw_intern, kw_unpaid>>
PaidWords == <<kw_inr, kw_lpa, kw_dollar, kw_salary, kw_stipend>>
LearningKeys == <<kw_mentorship, kw_training, kw_learning, kw_hands_on>>
StudentWords == <<kw_intern, kw_fresher, kw_0_1_year, kw_entry_level>>
ReputedCompanies == <<kw_google, kw_microsoft, kw_amazon, kw_techcorp, kw_flipkart>>
RemoteKeys == <<kw_remote, kw_hybrid, kw_work_from_home>>
ContractKeys == <<kw_contract, kw_freelance>>
ClarityKeys == <<"job_title", "job_description", "company_name", "location">>

\* len(desc) > 100
ClarityLen == 100
\* score >= 11, score >= 7
HighScore == 11
MediumScore == 7

---------------------------------------------------------------------------
(* score_job *)

Raise(e) == [t |-> "raise", exc |-> e]

\* score += n; tags.append(tag)
Award(acc, n, tag) == [score |-> acc.score + n, tags |-> Append(acc.tags, tag)]
\* score += n
Add(acc, n) == [score |-> acc.score + n, tags |-> acc.tags]

\* Compensation with the elif branches written as independent ifs
Compensation_independent_ifs(acc, desc) ==
    LET b1 == IF SearchWords(UnpaidWords, desc) THEN Award(acc, 1, "unpaid") ELSE acc
        b2 == IF Contains(desc, kw_negotiable) THEN Award(b1, 2, "negotiable") ELSE b1
    IN  IF SearchWords(PaidWords, desc) THEN Award(b2, 3, "well_paid") ELSE b2

Compensation(acc, desc) ==
    IF SearchWords(UnpaidWords, desc) THEN Award(acc, 1, "unpaid")
    ELSE IF Contains(desc, kw_negotiable) THEN Award(acc, 2, "negotiable")
    ELSE IF SearchWords(PaidWords, desc) THEN Award(acc, 3, "well_paid")
    ELSE acc

Learning(acc, desc) ==
    IF ContainsAny(desc, LearningKeys) THEN Award(acc, 2, "high_learning")
    ELSE IF Contains(desc, kw_startup) \/ Contains(desc, kw_early_stage)
         THEN Award(acc, 1, "learning_potential")
    ELSE acc

StudentFriendly(acc, desc, experience) ==
    IF SearchWords(StudentWords, desc) THEN Award(acc, 2, "student_friendly")
    ELSE IF Contains(experience, kw_1_2_years) THEN Add(acc, 1)
    ELSE acc

CompanyReputation(acc, desc, company) ==
    IF ContainsAny(company, ReputedCompanies) THEN Award(acc, 2, "reputed_company")
    ELSE IF Contains(desc, kw_startup) THEN Award(acc, 1, "startup")
    ELSE acc

Remote(acc, desc, location) ==
    IF ContainsAny(desc \o location, RemoteKeys) THEN Award(acc, 1, "remote")
    ELSE acc

FullTime(acc, desc) ==
    IF Contains(desc, kw_full_time) \/ Contains(desc, kw_permanent)
    THEN Award(acc, 2, "full_time")
    ELSE IF ContainsAny(desc, ContractKeys) THEN Add(acc, 1)
    ELSE acc

\* ClearInfo testing that the four keys are present rather than non-empty
ClearInfo_key_presence(acc, j, desc) ==
    IF (\A n \in 1..Len(ClarityKeys) : ClarityKeys[n] \in DOMAIN j.v) /\ Len(desc) > ClarityLen
    THEN Award(acc, 2, "clear_info")
    ELSE IF \A n \in 1..Len(ClarityKeys) : ClarityKeys[n] \in DOMAIN j.v THEN Add(acc, 1)
    ELSE acc

\* all(job.get(k) for k in [...]); job.get(k) is None for a missing key
Clarity(j) == \A n \in 1..Len(ClarityKeys) : Truthy(Get(j, ClarityKeys[n], PyNone))

ClearInfo(acc, j, desc) ==
    IF Clarity(j) /\ Len(desc) > ClarityLen THEN Award(acc, 2, "clear_info")
    ELSE IF Clarity(j) THEN Add(acc, 1)
    ELSE acc

\* Tier with strict comparisons
Tier_strict(score) ==
    IF score > HighScore THEN "high"
    ELSE IF score > MediumScore THEN "medium"
    ELSE "low"

Tier(score) ==
    IF score >= HighScore THEN "high"
    ELSE IF score >= MediumScore THEN "medium"
    ELSE "low"

\* the rules of score_job, lines 65-130, on the five lowercased texts
ScoreRules(j, desc, experience, company, location) ==
    LET a0 == [score |-> 0, tags |-> <<>>]
        a1 == Compensation(a0, desc)
        a2 == Learning(a1, desc)
        a3 == StudentFriendly(a2, desc, experience)
        a4 == CompanyReputation(a3, desc, company)
        a5 == Remote(a4, desc, location)
        a6 == FullTime(a5, desc)
        a7 == ClearInfo(a6, j, desc)
    IN  [t |-> "ok", score |-> a7.score, tier |-> Tier(a7.score), tags |-> a7.tags]

\* " ".join(x if isinstance(x, list) else [str(x)]).lower() of line 61;
\* the join raises TypeError on an element that is not a str
ExperienceItems(j) ==
    IF Get(j, "experience_required", PyNone).t = "list"
    THEN Get(j, "experience_required", PyList(<<>>)).v
    ELSE <<PyStr(Str(Get(j, "experience_required", PyStr(<<>>))))>>

\* ExperienceText joining the items without the separating space
ExperienceText_no_separator(j) ==
    LET items == ExperienceItems(j)
    IN  Lower(Join(<<>>, [n \in 1..Len(items) |-> items[n].v]))

ExperienceText(j) ==
    LET items == ExperienceItems(j)
    IN  Lower(Join(<<" ">>, [n \in 1..Len(items) |-> items[n].v]))

score_job(j) ==
    IF j.t # "dict" THEN Raise("AttributeError")
    ELSE IF Get(j, "job_description", PyStr(<<>>)).t # "str" THEN Raise("AttributeError")
    ELSE IF Get(j, "job_title", PyStr(<<>>)).t # "str" THEN Raise("AttributeError")
    ELSE IF \E n \in 1..Len(ExperienceItems(j)) : ExperienceItems(j)[n].t # "str"
         THEN Raise("TypeError")
    ELSE IF Get(j, "company_name", PyStr(<<>>)).t # "str" THEN Raise("AttributeError")
    ELSE IF Get(j, "location", PyStr(<<>>)).t # "str" THEN Raise("AttributeError")
    ELSE ScoreRules(j,
            Lower(Get(j, "job_description", PyStr(<<>>)).v),
            ExperienceText(j),
            Lower(Get(j, "company_name", PyStr(<<>>)).v),
            Lower(Get(j, "location", PyStr(<<>>)).v))

---------------------------------------------------------------------------
(* Inputs of score_job *)

Frags == <<
    <<"U","n","p","a","i","d"," ">>,
    <<"i","n","t","e","r","n","e","t"," ">>,
    <<"i","n","t","e","r","n"," ">>,
    <<"n","e","g","o","t","i","a","b","l","e"," ">>,
    <<"s","a","l","a","r","y"," ">>,
    <<"u","s","$","5"," ">>,
    <<"T","r","a","i","n","i","n","g"," ">>,
    <<"s","t","a","r","t","u","p"," ">>,
    <<"f","r","e","s","h","e","r"," ">>,
    <<"f","u","l","l","-","t","i","m","e"," ">>,
    <<"c","o","n","t","r","a","c","t"," ">>,
    <<"w","o","r","k"," ","f","r","o","m"," ">> >>

FragSets == {S \in SUBSET (1..Len(Frags)) : Cardinality(S) <= MaxFrags}

RECURSIVE ConcatFrom(_, _)
ConcatFrom(S, n) ==
    IF n > Len(Frags) THEN <<>>
    ELSE (IF n \in S THEN Frags[n] ELSE <<>>) \o ConcatFrom(S, n + 1)

\* the fragments of S in table order, after filler that brings the text to
\* ClarityLen + 1 characters when pad is set
Description(S, pad) ==
    LET body == ConcatFrom(S, 1)
    IN  IF pad THEN [i \in 1..(ClarityLen - Len(body)) |-> "x"] \o <<" ">> \o body
        ELSE body

TitleOpts == <<Absent, PyStr(<<"D","e","v">>)>>
CompanyOpts == <<PyStr(<<"A","c","m","e">>), PyStr(<<"G","o","o","g","l","e">>)>>
LocationOpts == <<PyStr(<<"h","o","m","e">>), PyStr(<<"R","e","m","o","t","e">>)>>
ExperienceOpts == <<
    Absent,
    PyStr(<<"1","-","2"," ","Y","e","a","r","s">>),
    PyList(<<PyStr(<<"1","-","2">>), PyStr(<<"Y","e","a","r","s">>)>>) >>

\* values of the wrong type for a field
MalformedOpts == <<
    PyNone,
    PyInt(12),
    PyList(<<PyStr(<<"D","e","v">>)>>),
    PyList(<<PyInt(2)>>) >>

JobKeys == <<"job_title", "job_description", "company_name", "location",
             "experience_required", "tech_stack", "contact_info">>

MkJob(title, desc, company, location, experience) ==
    MkDict([job_title |-> title, job_description |-> desc, company_name |-> company,
            location |-> location, experience_required |-> experience,
            tech_stack |-> PyList(<<>>), contact_info |-> PyList(<<>>)])

Pending == [t |-> "pending"]

PipelineIdle ==
    /\ log = <<>>
    /\ status = "none"
    /\ result = PyNone
    /\ job_info = PyNone
    /\ calls = <<>>

\* records of the documented shape with a description built from fragments
WellTypedInit ==
    \E S \in FragSets, pad \in BOOLEAN,
       ti \in 1..Len(TitleOpts), ci \in 1..Len(CompanyOpts),
       li \in 1..Len(LocationOpts), ei \in 1..Len(ExperienceOpts) :
        job = MkJob(TitleOpts[ti], PyStr(Description(S, pad)),
                    CompanyOpts[ci], LocationOpts[li], ExperienceOpts[ei])

\* records holding nothing: each key either missing or with an empty value
EmptyInit ==
    \E A \in SUBSET {"job_title", "job_description", "company_name", "location",
                     "experience_required"}, asList \in BOOLEAN :
        LET e(k) == IF k \in A THEN Absent ELSE PyStr(<<>>)
        IN  job = MkJob(e("job_title"), e("job_description"), e("company_name"),
                        e("location"),
                        IF "experience_required" \in A THEN Absent
                        ELSE IF asList THEN PyList(<<>>) ELSE PyStr(<<>>))

\* a complete record with one field replaced by a value of the wrong type
MalformedInit ==
    \E k \in 1..5, mi \in 1..Len(MalformedOpts) :
        LET base == MkJob(TitleOpts[2], PyStr(Description({5}, FALSE)),
                          CompanyOpts[2], LocationOpts[2], ExperienceOpts[2])
        IN  job = PyDict([base.v EXCEPT ![JobKeys[k]] = MalformedOpts[mi]])

ScoreInit ==
    /\ WellTypedInit \/ EmptyInit \/ MalformedInit
    /\ scored = Pending
    /\ PipelineIdle

\* the call score_job(job)
ScoreJob ==
    /\ scored.t = "pending"
    /\ scored' = score_job(job)
    /\ UNCHANGED <<job, log, status, result, job_info, calls>>

ScoreNext == ScoreJob

SpecScore == ScoreInit /\ [][ScoreNext]_vars

---------------------------------------------------------------------------
(* Text handed over by the collaborators *)

\* A reply of the language model or the standard output of the scraper is
\* [lead, body, trail]: an opening code fence ("fence_json" for three
\* backquotes and the word json, "fence" for three backquotes, "" for none),
\* the payload, a closing fence ("fence" or "").
\* The payload is garbage (not JSON, and holding no brace), the JSON text of
\* one value, two JSON objects one after the other, or prose followed by one
\* JSON object.  Payload objects hold no nested object.
Garbage == [shape |-> "garbage"]
JsonText(v) == [shape |-> "value", val |-> v]
TwoObjects(a, b) == [shape |-> "two_objects", first |-> a, second |-> b]
ProseThenObject(v) == [shape |-> "prose_then_object", val |-> v]

Plain(b) == [lead |-> "", body |-> b, trail |-> ""]
Fenced(l, b) == [lead |-> l, body |-> b, trail |-> "fence"]

Parsed(v) == [t |-> "ok", val |-> v]

\* json.loads(text)
json_loads(text) ==
    IF text.lead # "" \/ text.trail # "" THEN Raise("JSONDecodeError")
    ELSE IF text.body.shape = "value" THEN Parsed(text.body.val)
    ELSE Raise("JSONDecodeError")

\* json.dump(v, f, indent=2) and json.dumps(v, indent=2): the JSON text of v
json_dumps(v) == [t |-> "json", v |-> v]

\* the comma and line feed written after each record
Separator == [t |-> "text", v |-> <<",", "\n">>]

\* d.update(e) on the key-value maps of two dicts
Update(d, e) == [k \in DOMAIN d \cup DOMAIN e |-> IF k \in DOMAIN e THEN e[k] ELSE d[k]]

\* a string the program names, kept by name
PyLabel(s) == [t |-> "label", v |-> s]

Whitespace == {" ", "\n", "\t"}

RECURSIVE LStrip(_)
LStrip(s) == IF Len(s) > 0 /\ s[1] \in Whitespace THEN LStrip(Tail(s)) ELSE s
RECURSIVE RStrip(_)
RStrip(s) ==
    IF Len(s) > 0 /\ s[Len(s)] \in Whitespace THEN RStrip(SubSeq(s, 1, Len(s) - 1)) ELSE s

\* str.strip()
Strip(s) == RStrip(LStrip(s))

LinkedInPrefix == <<"h","t","t","p","s",":","/","/","w","w","w",".","l","i","n","k","e","d","i","n",".","c","o","m","/","j","o","b","s","/","v","i","e","w","/">>

\* line 108: the search for a LinkedIn job URL, the prefix and a digit
LinkedInUrlMatch(message) ==
    \E i \in 1..Len(message) :
        /\ MatchAt(message, LinkedInPrefix, i)
        /\ i + Len(LinkedInPrefix) <= Len(message)
        /\ message[i + Len(LinkedInPrefix)] \in {Digits[d] : d \in 1..Len(Digits)}

---------------------------------------------------------------------------
(* src/main.py: extract_job_from_text and process_input *)

\* one call made by a run, with what came back: the type of the value a
\* function returned, or the result of the scraper process as it is
Call(fn, out) == [fn |-> fn, out |-> out]

Outcome(st, res, ji, lg, cs) ==
    [status |-> st, result |-> res, job_info |-> ji, log |-> lg, calls |-> cs]

\* lines 40-43: the fences removed from the reply
CleanReply(text) ==
    LET t1 == IF text.lead = "fence_json" THEN [text EXCEPT !.lead = ""] ELSE text
    IN  IF t1.trail = "fence" THEN [t1 EXCEPT !.trail = ""] ELSE t1

\* resp.err: model.generate_content raised
extract_job_from_text(resp) ==
    IF resp.err THEN PyNone
    ELSE LET r == json_loads(CleanReply(resp.text))
         IN  IF r.t = "raise" THEN PyNone ELSE r.val

\* the test "if not job_info" with the local spelled only for an empty dict
NotJobInfo_only_empty_dict(ji) == ji.t = "dict" /\ DOMAIN ji.v = {}

\* if not job_info
NotJobInfo(ji) == ~Truthy(ji)

\* the dict returned by score_job
ScoreResult(sc) ==
    [score |-> PyInt(sc.score), tier |-> PyLabel(sc.tier),
     tags |-> PyList([n \in 1..Len(sc.tags) |-> PyLabel(sc.tags[n])])]

\* open("scored_jobs.json", "w") instead of "a": the file is truncated first
SaveToFile_truncating(lg, ji) == <<json_dumps(ji), Separator>>

\* lines 144-146: the file opened for appending, the record, the separator
SaveToFile(lg, ji) == lg \o <<json_dumps(ji), Separator>>

process_input_main(resp, lg) ==
    LET ji == extract_job_from_text(resp)
        c1 == <<Call("extract_job_from_text", ji.t)>>
    IN  IF NotJobInfo(ji)
        THEN Outcome("could_not_parse", PyNone, ji, lg, c1)
        ELSE LET sc == score_job(ji)
                 c2 == Append(c1, Call("score_job", sc.t))
             IN  IF sc.t = "raise"
                 THEN Outcome("exception", PyNone, ji, lg, c2)
                 ELSE LET merged == PyDict(Update(ji.v, ScoreResult(sc)))
                      IN  Outcome("success", json_dumps(merged), merged,
                                  SaveToFile(lg, merged), Append(c2, Call("open", "a")))

---------------------------------------------------------------------------
(* src/tempCodeRunnerFile.py: process_job_with_llm and process_input *)

\* the non-empty objects that the findall of line 70 meets in the text of v
ObjectsIn(v) ==
    IF v.t = "dict" THEN (IF DOMAIN v.v = {} THEN <<>> ELSE <<v>>)
    ELSE IF v.t = "list" THEN SelectSeq(v.v, LAMBDA e : e.t = "dict" /\ DOMAIN e.v # {})
    ELSE <<>>

\* line 70: the flat objects found in the reply, in order
FindObjects(body) ==
    CASE body.shape = "value" -> ObjectsIn(body.val)
      [] body.shape = "two_objects" -> <<body.first, body.second>>
      [] body.shape = "prose_then_object" -> <<body.val>>
      [] OTHER -> <<>>

\* lines 80-83: json.loads of the text from its first opening brace (of the
\* whole text when it holds none)
LoadsFromFirstBrace(body) ==
    CASE body.shape = "value" ->
            IF body.val.t = "list" /\ \E n \in 1..Len(body.val.v) : body.val.v[n].t = "dict"
            THEN Raise("JSONDecodeError")
            ELSE Parsed(body.val)
      [] body.shape = "prose_then_object" -> Parsed(body.val)
      [] OTHER -> Raise("JSONDecodeError")

process_job_with_llm(resp) ==
    IF resp.err THEN PyNone
    ELSE LET matches == FindObjects(resp.text.body)
         IN  IF Len(matches) = 2
             THEN PyDict(Update(matches[1].v, matches[2].v))
             ELSE LET r == LoadsFromFirstBrace(resp.text.body)
                  IN  IF r.t = "raise" THEN PyNone ELSE r.val

\* pytesseract.image_to_string(image).strip()
extract_text_from_image(image) == Strip(image.text)

\* lines 100-102
Message(text_message, image) ==
    IF Len(Strip(text_message)) = 0 /\ image.t # "none"
    THEN extract_text_from_image(image)
    ELSE Strip(text_message)

MessageCalls(text_message, image) ==
    IF Len(Strip(text_message)) = 0 /\ image.t # "none"
    THEN <<Call("extract_text_from_image", "str")>>
    ELSE <<>>

\* lines 104-105
NoInput(cs, lg) == Outcome("no_input", PyNone, PyNone, lg, cs)

\* what subprocess.run and the lines 116-118 make of a scraper run:
\* "raised" (timeout, node missing), "nonzero", "bad_json" or "ok"
ScraperOutcome(scrape) ==
    IF scrape.exc # "" THEN "raised"
    ELSE IF scrape.returncode # 0 THEN "nonzero"
    ELSE IF json_loads(scrape.stdout).t = "raise" THEN "bad_json"
    ELSE "ok"

\* the scraper step with the returncode test left out
ScraperStep_ignores_returncode(scrape, cs, lg) ==
    IF scrape.exc # "" \/ json_loads(scrape.stdout).t = "raise"
    THEN Outcome("scraper_error", PyNone, PyNone, lg, Append(cs, Call("scraper", scrape)))
    ELSE Outcome("continue", PyNone, PyNone, lg, Append(cs, Call("scraper", scrape)))

\* lines 109-121: the outcome of the run when it ends here, "continue" otherwise
ScraperStep(scrape, cs, lg) ==
    LET o == ScraperOutcome(scrape)
        c == Append(cs, Call("scraper", scrape))
    IN  CASE o = "nonzero" -> Outcome("scraper_failed", PyNone, PyNone, lg, c)
          [] o = "ok"      -> Outcome("continue", PyNone, PyNone, lg, c)
          [] OTHER         -> Outcome("scraper_error", PyNone, PyNone, lg, c)

\* lines 123-134
LlmStep(resp, cs, lg) ==
    LET ji == process_job_with_llm(resp)
        c == Append(cs, Call("process_job_with_llm", ji.t))
    IN  IF NotJobInfo(ji)
        THEN Outcome("could_not_parse", PyNone, ji, lg, c)
        ELSE Outcome("success", json_dumps(ji), ji, SaveToFile(lg, ji),
                     Append(c, Call("open", "a")))

---------------------------------------------------------------------------
(* Inputs of the pipelines *)

RichJob ==
    MkJob(PyStr(<<"D","e","v">>),
          PyStr(<<"s","a","l","a","r","y"," ","T","r","a","i","n","i","n","g"," ">>),
          PyStr(<<"G","o","o","g","l","e">>), PyStr(<<"R","e","m","o","t","e">>),
          PyStr(<<"1","-","2"," ","Y","e","a","r","s">>))

\* an object with missing keys
PartialJob == PyDict([job_title |-> PyStr(<<"I","n","t","e","r","n">>)])

\* an object whose description is null
NullDescriptionJob ==
    PyDict([job_title |-> PyStr(<<"D","e","v">>), job_description |-> PyNone])

\* the second object of a reply in two parts
ScorePart == PyDict([score |-> PyInt(9), tier |-> PyLabel("medium"), tags |-> PyList(<<>>)])

Payloads == <<
    Garbage,
    JsonText(RichJob),
    JsonText(PartialJob),
    JsonText(NullDescriptionJob),
    JsonText(PyDict(<<>>)),
    JsonText(PyNone),
    JsonText(PyList(<<PyInt(1)>>)),
    JsonText(PyList(<<PartialJob>>)),
    JsonText(PyStr(<<"D","e","v">>)),
    TwoObjects(PartialJob, ScorePart),
    ProseThenObject(PartialJob) >>

NoReply == [err |-> TRUE, text |-> Plain(Garbage)]
Reply(text) == [err |-> FALSE, text |-> text]

Responses ==
    <<NoReply, Reply(Fenced("fence_json", JsonText(RichJob))), Reply(Fenced("fence", JsonText(RichJob)))>>
    \o [n \in 1..Len(Payloads) |-> Reply(Plain(Payloads[n]))]

TextOpts == <<
    <<>>,
    <<" ">>,
    <<"H","i","r","i","n","g"," ","D","e","v">>,
    <<" ","h","t","t","p","s",":","/","/","w","w","w",".","l","i","n","k","e","d","i","n",".","c","o","m","/","j","o","b","s","/","v","i","e","w","/","4","2"," ">>,
    <<"h","t","t","p","s",":","/","/","w","w","w",".","l","i","n","k","e","d","i","n",".","c","o","m","/","j","o","b","s","/","v","i","e","w","/">> >>

ImageOpts == <<
    PyNone,
    [t |-> "image", text |-> <<" ">>],
    [t |-> "image", text |-> <<"H","i","r","i","n","g"," ","D","e","v">>] >>

Scrape(e, rc, out) == [exc |-> e, returncode |-> rc, stdout |-> out]

ScrapeOpts == <<
    Scrape("TimeoutExpired", 0, Plain(Garbage)),
    Scrape("FileNotFoundError", 0, Plain(Garbage)),
    Scrape("", 1, Plain(Garbage)),
    Scrape("", 1, Plain(JsonText(RichJob))),
    Scrape("", 0, Plain(Garbage)),
    Scrape("", 0, Plain(JsonText(RichJob))) >>

---------------------------------------------------------------------------
(* The pipelines as a state machine *)

Init ==
    /\ job = PyDict(<<>>)
    /\ scored = Pending
    /\ PipelineIdle

Return(o) ==
    /\ status' = o.status
    /\ result' = o.result
    /\ job_info' = o.job_info
    /\ log' = o.log
    /\ calls' = o.calls
    /\ UNCHANGED <<job, scored>>

\* one call of process_input of src/main.py
ProcessInputMain ==
    /\ Len(log) < 2 * MaxRuns
    /\ \E r \in 1..Len(Responses) : Return(process_input_main(Responses[r], log))

\* one call of process_input of src/tempCodeRunnerFile.py
ProcessInputTemp ==
    /\ Len(log) < 2 * MaxRuns
    /\ \E ti \in 1..Len(TextOpts), ii \in 1..Len(ImageOpts) :
        LET message == Message(TextOpts[ti], ImageOpts[ii])
            c0 == MessageCalls(TextOpts[ti], ImageOpts[ii])
        IN  IF Len(message) = 0 THEN Return(NoInput(c0, log))
            ELSE IF LinkedInUrlMatch(message)
            THEN \E si \in 1..Len(ScrapeOpts) :
                    LET o == ScraperStep(ScrapeOpts[si], c0, log)
                    IN  IF o.status # "continue" THEN Return(o)
                        ELSE \E r \in 1..Len(Responses) :
                                Return(LlmStep(Responses[r], o.calls, log))
            ELSE \E r \in 1..Len(Responses) : Return(LlmStep(Responses[r], c0, log))

Next == ProcessInputMain \/ ProcessInputTemp

Spec == Init /\ [][Next]_vars

---------------------------------------------------------------------------
(* Properties of score_job, checked under SpecScore *)

Returned == scored.t = "ok"

\* the set of the tags of the result
TagSet == {scored.tags[n] : n \in 1..Len(scored.tags)}

\* the lowercased text of a field of job that holds a string
FieldText(k) == Lower(Get(job, k, PyStr(<<>>)).v)

\* C1: the tier of a result is fixed by its score alone: high exactly from
\* 11 up, medium exactly from 7 to 10, low exactly below 7.
C1_TierFromScore ==
    Returned =>
        /\ (scored.tier = "high") <=> (scored.score >= 11)
        /\ (scored.tier = "medium") <=> (7 <= scored.score /\ scored.score < 11)
        /\ (scored.tier = "low") <=> (scored.score < 7)

C1_Witness == Returned /\ scored.score = 11 /\ scored.tier = "high"

\* the other three boundary scores of C1 are reached as well
C1_Boundary6 == Returned /\ scored.score = 6 /\ scored.tier = "low"
C1_Boundary7 == Returned /\ scored.score = 7 /\ scored.tier = "medium"
C1_Boundary10 == Returned /\ scored.score = 10 /\ scored.tier = "medium"

\* C3: score_job never raises, whatever is absent, empty or of the wrong
\* type in the record.
C3_NeverRaises == scored.t # "raise"

\* the contribution table of the seven categories, read off the record
CompPoints ==
    IF SearchWords(<<kw_intern, kw_unpaid>>, FieldText("job_description")) THEN 1
    ELSE IF Contains(FieldText("job_description"), kw_negotiable) THEN 2
    ELSE IF SearchWords(<<kw_inr, kw_lpa, kw_dollar, kw_salary, kw_stipend>>,
                        FieldText("job_description")) THEN 3
    ELSE 0
LearnPoints ==
    IF ContainsAny(FieldText("job_description"),
                   <<kw_mentorship, kw_training, kw_learning, kw_hands_on>>) THEN 2
    ELSE IF ContainsAny(FieldText("job_description"), <<kw_startup, kw_early_stage>>) THEN 1
    ELSE 0
StudentPoints ==
    IF SearchWords(<<kw_intern, kw_fresher, kw_0_1_year, kw_entry_level>>,
                   FieldText("job_description")) THEN 2
    ELSE IF Contains(ExperienceText(job), kw_1_2_years) THEN 1
    ELSE 0
CompanyPoints ==
    IF ContainsAny(FieldText("company_name"),
                   <<kw_google, kw_microsoft, kw_amazon, kw_techcorp, kw_flipkart>>) THEN 2
    ELSE IF Contains(FieldText("job_description"), kw_startup) THEN 1
    ELSE 0
WorkModePoints == IF "remote" \in TagSet THEN 1 ELSE 0
EmploymentPoints ==
    IF ContainsAny(FieldText("job_description"), <<kw_full_time, kw_permanent>>) THEN 2
    ELSE IF ContainsAny(FieldText("job_description"), <<kw_contract, kw_freelance>>) THEN 1
    ELSE 0
CompletePoints ==
    IF \E k \in {"job_title", "job_description", "company_name", "location"} :
          Len(Get(job, k, PyStr(<<>>)).v) = 0
    THEN 0
    ELSE IF Len(FieldText("job_description")) > 100 THEN 2 ELSE 1

\* the tags of each category
CategoryTags == <<
    {"unpaid", "negotiable", "well_paid"},
    {"high_learning", "learning_potential"},
    {"student_friendly"},
    {"reputed_company", "startup"},
    {"remote"},
    {"full_time"},
    {"clear_info"} >>

\* how many entries of the tags of the result lie in T
TagCount(T) == Cardinality({n \in 1..Len(scored.tags) : scored.tags[n] \in T})

UnpaidAndSalary ==
    /\ SearchWords(<<kw_unpaid>>, FieldText("job_description"))
    /\ Contains(FieldText("job_description"), kw_salary)

\* C4: each category gives at most one tag, the score is the sum of the
\* seven first-match contributions, and a description with the whole word
\* unpaid and with salary gets the tag unpaid and +1, never well_paid.
C4_FirstMatchPerCategory ==
    Returned =>
        /\ \A c \in 1..Len(CategoryTags) : TagCount(CategoryTags[c]) <= 1
        /\ scored.score = CompPoints + LearnPoints + StudentPoints + CompanyPoints
                          + WorkModePoints + EmploymentPoints + CompletePoints
        /\ ("unpaid" \in TagSet) <=> (CompPoints = 1)
        /\ ("negotiable" \in TagSet) <=> (CompPoints = 2)
        /\ ("well_paid" \in TagSet) <=> (CompPoints = 3)
        /\ UnpaidAndSalary => CompPoints = 1 /\ "unpaid" \in TagSet /\ "well_paid" \notin TagSet

C4_Witness == Returned /\ UnpaidAndSalary /\ scored.tags[1] = "unpaid"

\* C7: the tag remote and its point are given exactly when the description
\* contains, or the location contains, one of remote, hybrid, work from home.
C7_WorkModeEitherField ==
    Returned =>
        (("remote" \in TagSet) <=>
            (\/ ContainsAny(FieldText("job_description"), <<kw_remote, kw_hybrid, kw_work_from_home>>)
             \/ ContainsAny(FieldText("location"), <<kw_remote, kw_hybrid, kw_work_from_home>>)))

\* job with experience_required replaced by x
WithExperience(x) == PyDict([k \in DOMAIN job.v \cup {"experience_required"} |->
                                IF k = "experience_required" THEN x ELSE job.v[k]])

ExperienceIsStringList ==
    /\ "experience_required" \in DOMAIN job.v
    /\ job.v["experience_required"].t = "list"
    /\ \A n \in 1..Len(job.v["experience_required"].v) :
          job.v["experience_required"].v[n].t = "str"

\* the elements of the experience list joined by single spaces
JoinedExperience ==
    Join(<<" ">>, [n \in 1..Len(job.v["experience_required"].v) |->
                      job.v["experience_required"].v[n].v])

\* C9: a record whose experience_required is a sequence of strings gets the
\* result of the record that holds the sequence joined by single spaces, and
\* of the one that holds that string lowercased.
C9_SequenceOrString ==
    (scored.t # "pending" /\ ExperienceIsStringList) =>
        /\ scored = score_job(WithExperience(PyStr(JoinedExperience)))
        /\ scored = score_job(WithExperience(PyStr(Lower(JoinedExperience))))

C9_Witness ==
    /\ Returned /\ ExperienceIsStringList
    /\ Len(job.v["experience_required"].v) = 2
    /\ StudentPoints = 1
    /\ ~Contains(JoinedExperience, kw_1_2_years)

Vocabulary == {"unpaid", "negotiable", "well_paid", "high_learning", "learning_potential",
               "student_friendly", "reputed_company", "startup", "remote", "full_time",
               "clear_info"}

\* every field of job is missing or holds the empty value of its type
AllEmpty ==
    /\ \A k \in {"job_title", "job_description", "company_name", "location"} :
          k \in DOMAIN job.v => job.v[k].t = "str" /\ Len(job.v[k].v) = 0
    /\ \A k \in {"tech_stack", "contact_info"} :
          k \in DOMAIN job.v => job.v[k].t = "list" /\ Len(job.v[k].v) = 0
    /\ "experience_required" \in DOMAIN job.v =>
          /\ job.v["experience_required"].t \in {"str", "list"}
          /\ Len(job.v["experience_required"].v) = 0

\* C10: a result has a score in 0..15, one of the three tiers and tags of
\* the vocabulary without duplicates; a record that holds nothing gets score
\* 0, tier low and no tag.
C10_ResultShape ==
    /\ Returned =>
          /\ scored.score \in 0..15
          /\ scored.tier \in {"high", "medium", "low"}
          /\ TagSet \subseteq Vocabulary
          /\ Cardinality(TagSet) = Len(scored.tags)
    /\ (AllEmpty /\ scored.t # "pending") =>
          Returned /\ scored.score = 0 /\ scored.tier = "low" /\ scored.tags = <<>>

C10_Witness == AllEmpty /\ Returned /\ DOMAIN job.v = {"job_title", "job_description",
                   "company_name", "location", "experience_required", "tech_stack", "contact_info"}

---------------------------------------------------------------------------
(* Properties of the pipelines, checked under Spec *)

\* the calls of the latest run to fn
CallsTo(fn) == {n \in 1..Len(calls) : calls[n].fn = fn}

\* the latest run asked the extraction collaborator and got no record
ExtractionFailed ==
    \E n \in CallsTo("extract_job_from_text") \cup CallsTo("process_job_with_llm") :
        calls[n].out = "none"

\* C2: a run whose extraction returns no record ends with the could-not-parse
\* status and no result, never calls score_job and leaves the log as it was.
C2_FailedExtractionSkipsScoring ==
    [][ExtractionFailed' =>
          /\ status' = "could_not_parse"
          /\ result'.t = "none"
          /\ \A n \in 1..Len(calls') : calls'[n].fn \notin {"score_job", "open"}
          /\ log' = log]_vars

C2_Witness == ExtractionFailed /\ status = "could_not_parse" /\ Len(log) > 0

\* the latest run asked the language model
LlmInvoked == CallsTo("extract_job_from_text") \cup CallsTo("process_job_with_llm") # {}

\* C5: whatever the language model replies, the run ends with the success or
\* the could-not-parse status, no exception leaves it, and a reply that is
\* not an object counts as a failed extraction.
C5_NoExceptionEscapes ==
    LlmInvoked =>
        /\ status \in {"success", "could_not_parse"}
        /\ job_info.t # "dict" => status = "could_not_parse"

\* the scraper process timed out or could not start, ended with a non-zero
\* code, or printed something that is not JSON
ResolverFailed(run) ==
    \/ run.exc # ""
    \/ run.returncode # 0
    \/ run.stdout.lead # "" \/ run.stdout.trail # "" \/ run.stdout.body.shape # "value"

LinkResolutionFailed == \E n \in CallsTo("scraper") : ResolverFailed(calls[n].out)

\* C6: a run of the link-resolving pipeline whose scraper fails returns a
\* failure message and no result, never asks the language model and appends
\* nothing to the log.
C6_ResolverFailureSkipsScoring ==
    [][LinkResolutionFailed' =>
          /\ status' \in {"scraper_failed", "scraper_error"}
          /\ result'.t = "none"
          /\ CallsTo("process_job_with_llm")' = {}
          /\ \A n \in 1..Len(calls') : calls'[n].fn # "open"
          /\ log' = log]_vars

C6_Witness ==
    /\ LinkResolutionFailed /\ Len(log) > 0
    /\ \E n \in CallsTo("scraper") : calls[n].out.exc = "" /\ calls[n].out.returncode = 0

===========================================================================
